---- MODULE Spec2Model ----
(***************************************************************************)
(* Expense ledger and settlement engine of backend/routes/expenses.py.     *)
(*                                                                         *)
(* Money is counted in thousandths of the currency unit (mills), so that   *)
(* 0.01 is 10 and the half cent 0.005 is 5: the request schema accepts     *)
(* decimals of any precision (models/schemas.py, condecimal(ge=0)), and    *)
(* the rounding rules of the code only show below the cent.                *)
(*                                                                         *)
(* One group is modelled; every select of the code filters on its id.      *)
(* The store answers every insert and select, except in ConcSpec, where    *)
(* any of them may raise.                                                  *)
(*                                                                         *)
(* Spec        the ledger under add_expense, compute_balances, settle_up   *)
(* WriteSpec   one call of add_expense on every payload of Requests        *)
(* AllocSpec   one call of add_expense without explicit shares, on every   *)
(*             amount of whole cents up to MaxSplitCents and every         *)
(*             participant count up to MaxSplitWays                        *)
(* ConcSpec    calls of add_expense and one balances query running         *)
(*             concurrently, one store operation at a time                 *)
(* PlannerSpec the loop of _settle_min_transactions, step by step, on      *)
(*             every dict of whole-cent balances                           *)
(* PlannerFairSpec PlannerSpec with weak fairness of the loop's steps       *)
(*                                                                         *)
(* The destination polls of backend/routes/polls.py, for the same group:   *)
(*                                                                         *)
(* PollSpec    the poll tables under start_poll, submit_preferences,       *)
(*             accept_suggestions, vote_suggestion and confirm_choice,     *)
(*             one call after the other                                    *)
(* VoteSpec    vote_suggestion on one suggestion, by MaxVoters users       *)
(* PollConcSpec MaxPollCalls calls of submit_preferences and             *)
(*             vote_suggestion running concurrently, one store operation   *)
(*             at a time                                                   *)
(***************************************************************************)
EXTENDS Integers, Sequences, FiniteSets, Bags, TLC

\* ----------------------------------------------------------------- bounds
MaxExpenses == 2
MaxParts == 2
MaxPlanUsers == 4
MaxBal == 3
MaxSplitWays == 4
MaxSplitCents == 30
MaxWriters == 2
MaxPolls == 2
MaxSuggestions == 1
MaxVoters == 4
MaxPollCalls == 2

\* ------------------------------------------------------ program constants
\* CENTS = Decimal("0.01"), in mills
CENTS == 10
\* Decimal("0.005") of _zeroish, in mills
HALF_CENT == 5
\* the 0.01 of "abs(total_shares - amount) > 0.01", in mills
TOLERANCE == 10
\* the 0.5 of "have / members >= 0.5", in percent
QUORUM == 50
\* the 2 of 'r["total"] >= 2'
MIN_VOTES == 2
\* the 0.70 of 'r["ratio"] >= 0.70', in percent
APPROVAL == 70

\* an Optional value is a sequence of at most one element
None == <<>>
NoRequest == [payer_id |-> "", amount |-> 0, split_between |-> <<>>]

Users == {"A", "B", "C"}
MemberLists == {<<"A", "B">>, <<"A", "B", "C">>}
Amounts == {-10, 0, 10, 12, 20}
ShareOpts == {None, <<10>>, <<12>>}

VARIABLES
    members,    \* rows of group_members for the group, in the store's order
    expenses,   \* rows of expenses: [id, payer_id, amount]
    splits,     \* rows of expense_splits: [expense_id, user_id, share]
    request,    \* payload of the last add_expense or poll handler call
    response,   \* what the last handler call returned or raised
    balances,   \* argument of the running _settle_min_transactions call
    plan,       \* its locals: creditors, debtors, ci, di, settlements
    pc,         \* its position: "loop" or "done"
    calls,      \* the handler calls in flight, each with its locals
    polls,              \* rows of polls, the row of id i at index i
    poll_preferences,   \* rows of poll_preferences, a bag of [poll_id, user_id]
    poll_suggestions,   \* rows of poll_suggestions, the row of id i at index i
    poll_votes          \* rows of poll_votes, a bag of [suggestion_id, user_id, vote]

ledger == <<members, expenses, splits>>
planner == <<balances, plan, pc>>
polldb == <<polls, poll_preferences, poll_suggestions, poll_votes>>
vars == <<members, expenses, splits, request, response, balances, plan, pc,
          calls, polls, poll_preferences, poll_suggestions, poll_votes>>

\* the poll tables without a row
NoPollRows ==
    /\ polls = <<>>
    /\ poll_preferences = EmptyBag
    /\ poll_suggestions = <<>>
    /\ poll_votes = EmptyBag

\* ---------------------------------------------------------------- helpers
Abs(v) == IF v < 0 THEN -v ELSE v

RECURSIVE SumSeq(_)
SumSeq(s) == IF s = <<>> THEN 0 ELSE s[1] + SumSeq(Tail(s))

q2HalfDown(value) ==
    IF value >= 0
    THEN ((value + HALF_CENT - 1) \div CENTS) * CENTS
    ELSE -((((-value) + HALF_CENT - 1) \div CENTS) * CENTS)

\* value.quantize(CENTS, rounding=ROUND_HALF_UP): ties go away from zero
q2(value) ==
    IF value >= 0
    THEN ((value + HALF_CENT) \div CENTS) * CENTS
    ELSE -((((-value) + HALF_CENT) \div CENTS) * CENTS)

zeroish(value) == Abs(value) < HALF_CENT

\* Python's round(num / den, 2) on floats.  The nearest cent, except that
\* a decimal tie (x.xx5) is not exactly representable in binary and goes
\* up or down with the float's error (round(0.015, 2) = 0.01 and
\* round(0.025, 2) = 0.03): both outcomes are possible.
PyRound2(num, den) ==
    LET lo == (num \div (CENTS * den)) * CENTS
        r2 == 2 * (num - lo * den)
    IN  IF r2 < CENTS * den THEN {lo}
        ELSE IF r2 > CENTS * den THEN {lo + CENTS}
        ELSE {lo, lo + CENTS}

\* f"{pay:.2f}" of a Decimal: two decimals, ties to even; the string is
\* represented by the number it denotes
RoundHalfEven(value, unit) ==
    LET lo == (value \div unit) * unit
        r2 == 2 * (value - lo)
    IN  IF r2 < unit THEN lo
        ELSE IF r2 > unit THEN lo + unit
        ELSE IF (lo \div unit) % 2 = 0 THEN lo ELSE lo + unit

FormatAmountWhole(pay) == RoundHalfEven(pay, 1000)

FormatAmount(pay) == RoundHalfEven(pay, CENTS)

\* ------------------------------------------------------------- Aggregator
\* A dict of balances is the sequence of its items [user_id, balance], in
\* insertion order, with one item per key.
HasKey(bal, key) == \E i \in DOMAIN bal : bal[i].user_id = key

AddToAssign(bal, key, delta) ==
    [i \in DOMAIN bal |->
        IF bal[i].user_id = key
        THEN [bal[i] EXCEPT !.balance = delta]
        ELSE bal[i]]

\* balances[key] += delta, for a key of the dict
AddTo(bal, key, delta) ==
    [i \in DOMAIN bal |->
        IF bal[i].user_id = key
        THEN [bal[i] EXCEPT !.balance = @ + delta]
        ELSE bal[i]]

RECURSIVE AddPaidAnyPayer(_, _)
AddPaidAnyPayer(bal, exps) ==
    IF exps = <<>> THEN bal
    ELSE LET payer == exps[1].payer_id
             amount == exps[1].amount
         IN  AddPaidAnyPayer(IF HasKey(bal, payer)
                             THEN AddTo(bal, payer, amount)
                             ELSE Append(bal, [user_id |-> payer, balance |-> amount]),
                             Tail(exps))

\* for expense in expenses: if payer in balances: balances[payer] += amount
RECURSIVE AddPaid(_, _)
AddPaid(bal, exps) ==
    IF exps = <<>> THEN bal
    ELSE LET payer == exps[1].payer_id
             amount == exps[1].amount
         IN  AddPaid(IF HasKey(bal, payer) THEN AddTo(bal, payer, amount) ELSE bal,
                     Tail(exps))

RECURSIVE SubOwedAnyUser(_, _)
SubOwedAnyUser(bal, spl) ==
    IF spl = <<>> THEN bal
    ELSE LET user_id == spl[1].user_id
             share == spl[1].share
         IN  SubOwedAnyUser(IF HasKey(bal, user_id)
                            THEN AddTo(bal, user_id, -share)
                            ELSE Append(bal, [user_id |-> user_id, balance |-> -share]),
                            Tail(spl))

\* for split in splits: if user_id in balances: balances[user_id] -= share
RECURSIVE SubOwed(_, _)
SubOwed(bal, spl) ==
    IF spl = <<>> THEN bal
    ELSE LET user_id == spl[1].user_id
             share == spl[1].share
         IN  SubOwed(IF HasKey(bal, user_id) THEN AddTo(bal, user_id, -share) ELSE bal,
                     Tail(spl))

\* the final loop: quantize, and report a zeroish value as 0.00
Quantized(balance) ==
    LET quantized == q2(balance)
    IN  IF zeroish(quantized) THEN 0 ELSE quantized

\* _compute_group_balances_decimal
compute_group_balances_decimal(mem, exps, spl) ==
    LET user_ids == mem
        zero == [i \in DOMAIN user_ids |-> [user_id |-> user_ids[i], balance |-> 0]]
        expense_ids == {exps[i].id : i \in DOMAIN exps}
        selected == SelectSeq(spl, LAMBDA s : s.expense_id \in expense_ids)
        bal == SubOwed(AddPaid(zero, exps), selected)
    IN  IF exps = <<>>
        THEN [i \in DOMAIN zero |-> [zero[i] EXCEPT !.balance = q2(@)]]
        ELSE [i \in DOMAIN bal |-> [bal[i] EXCEPT !.balance = Quantized(@)]]

\* ---------------------------------------------------------------- Planner
InsertAsc(sorted, item) ==
    LET k == Cardinality({i \in DOMAIN sorted : sorted[i].amount <= item.amount})
    IN  SubSeq(sorted, 1, k) \o <<item>> \o SubSeq(sorted, k + 1, Len(sorted))

\* list.sort(key=item[1], reverse=True): stable, descending by amount
InsertDesc(sorted, item) ==
    LET k == Cardinality({i \in DOMAIN sorted : sorted[i].amount >= item.amount})
    IN  SubSeq(sorted, 1, k) \o <<item>> \o SubSeq(sorted, k + 1, Len(sorted))

SortNone(s) == s

RECURSIVE SortDesc(_)
SortDesc(s) ==
    IF s = <<>> THEN <<>>
    ELSE InsertDesc(SortDesc(SubSeq(s, 1, Len(s) - 1)), s[Len(s)])

\* creditors.append([user_id, balance]) if balance > 0
Creditors(bals) ==
    LET pos == SelectSeq(bals, LAMBDA b : b.balance > 0)
    IN  [i \in DOMAIN pos |-> [user_id |-> pos[i].user_id, amount |-> pos[i].balance]]

\* debtors.append([user_id, -balance]) elif balance < 0
Debtors(bals) ==
    LET neg == SelectSeq(bals, LAMBDA b : b.balance < 0)
    IN  [i \in DOMAIN neg |-> [user_id |-> neg[i].user_id, amount |-> -neg[i].balance]]

\* the locals before the while loop; ci and di are one more than in the
\* code, sequences being indexed from 1
PlanInit(bals) ==
    [creditors |-> SortDesc(Creditors(bals)),
     debtors |-> SortDesc(Debtors(bals)),
     ci |-> 1, di |-> 1, settlements |-> <<>>]

\* while ci < len(creditors) and di < len(debtors)
LoopCond(st) == st.ci <= Len(st.creditors) /\ st.di <= Len(st.debtors)

PayDifference(creditor_amount, debtor_amount) ==
    q2(Abs(creditor_amount - debtor_amount))

PayNothing(creditor_amount, debtor_amount) == 0

PayLarger(creditor_amount, debtor_amount) ==
    q2(IF creditor_amount >= debtor_amount THEN creditor_amount ELSE debtor_amount)

\* pay = _q2(creditor_amount if creditor_amount <= debtor_amount else debtor_amount)
Pay(creditor_amount, debtor_amount) ==
    q2(IF creditor_amount <= debtor_amount THEN creditor_amount ELSE debtor_amount)

TransactionReversed(debtor_user, creditor_user, pay) ==
    [from |-> creditor_user, to |-> debtor_user, amount |-> FormatAmount(pay)]

\* the dict appended to settlements
Transaction(debtor_user, creditor_user, pay) ==
    [from |-> debtor_user, to |-> creditor_user, amount |-> FormatAmount(pay)]

\* one iteration of the while loop
PlanStep(st) ==
    LET creditor_user == st.creditors[st.ci].user_id
        creditor_amount == st.creditors[st.ci].amount
        debtor_user == st.debtors[st.di].user_id
        debtor_amount == st.debtors[st.di].amount
        pay == Pay(creditor_amount, debtor_amount)
        creditor_left == q2(creditor_amount - pay)
        debtor_left == q2(debtor_amount - pay)
        creditor_out == zeroish(creditor_left) \/ creditor_left = 0
        debtor_out == zeroish(debtor_left) \/ debtor_left = 0
    IN  [creditors |-> IF creditor_out THEN st.creditors
                       ELSE [st.creditors EXCEPT ![st.ci].amount = creditor_left],
         debtors |-> IF debtor_out THEN st.debtors
                     ELSE [st.debtors EXCEPT ![st.di].amount = debtor_left],
         ci |-> IF creditor_out THEN st.ci + 1 ELSE st.ci,
         di |-> IF debtor_out THEN st.di + 1 ELSE st.di,
         settlements |-> IF pay > 0
                         THEN Append(st.settlements,
                                     Transaction(debtor_user, creditor_user, pay))
                         ELSE st.settlements]

RECURSIVE RunPlan(_)
RunPlan(st) == IF LoopCond(st) THEN RunPlan(PlanStep(st)) ELSE st

\* _settle_min_transactions
settle_min_transactions(bals) == RunPlan(PlanInit(bals)).settlements

\* ------------------------------------------------------------ add_expense
\* ExpenseCreate / ExpenseParticipant: amount >= 0, share >= 0 or absent;
\* a payload that fails the schema never reaches the handler (422)
ExpenseCreateValid(req) ==
    /\ req.amount >= 0
    /\ \A i \in DOMAIN req.split_between :
          req.split_between[i].share = None \/ req.split_between[i].share[1] >= 0

customAll(parts) == \A i \in DOMAIN parts : parts[i].share # None

\* custom = any(p.get("share") is not None for p in parts)
custom(parts) == \E i \in DOMAIN parts : parts[i].share # None

\* sum(float(p["share"]) for p in parts), every share being present
SumShares(parts) == SumSeq([i \in DOMAIN parts |-> parts[i].share[1]])

\* the "if not custom" block: the possible lists of parts after it
EqualSplit(amount, parts) ==
    LET n == Len(parts)
        WithShares(equal, last) ==
            [i \in DOMAIN parts |->
                [user_id |-> parts[i].user_id,
                 share |-> IF i = n THEN <<last>> ELSE <<equal>>]]
    IN  UNION { UNION { { WithShares(equal, last) :
                          last \in PyRound2(equal + remainder, 1) } :
                        remainder \in PyRound2(amount - n * equal, 1) } :
                equal \in PyRound2(amount, n) }

Rejected(status) == [status |-> status, parts |-> <<>>]

\* "Validate totals": float(None) raises TypeError, which the handler turns
\* into a 500; a deviation of exactly 0.01 passes or fails with the float
\* error of the subtraction (abs(0.03 - 0.02) > 0.01 is False,
\* abs(0.06 - 0.07) > 0.01 is True)
ValidateTotals(amount, parts) ==
    IF \E i \in DOMAIN parts : parts[i].share = None
    THEN {Rejected(500)}
    ELSE UNION { LET deviation == Abs(total_shares - amount)
                 IN  (IF deviation >= TOLERANCE THEN {Rejected(400)} ELSE {})
                     \cup (IF deviation <= TOLERANCE
                           THEN {[status |-> 200, parts |-> parts]} ELSE {}) :
                 total_shares \in PyRound2(SumShares(parts), 1) }

\* the handler up to the first insert: the status it answers with and, when
\* it goes on to insert, the parts it inserts
add_expense(req) ==
    LET amount == req.amount
        parts == req.split_between
    IN  IF ~ExpenseCreateValid(req) THEN {Rejected(422)}
        ELSE IF amount <= 0 THEN {Rejected(400)}
        ELSE IF parts = <<>> THEN {Rejected(400)}
        ELSE UNION { ValidateTotals(amount, p) :
                     p \in IF custom(parts) THEN {parts}
                           ELSE EqualSplit(amount, parts) }

\* ------------------------------------------------------------- the system
PartLists ==
    UNION { [1..n -> [user_id : Users, share : ShareOpts]] : n \in 0..MaxParts }

\* the payloads a single call is tried on
Requests == [payer_id : Users, amount : Amounts, split_between : PartLists]

Part(user_id, share) == [user_id |-> user_id, share |-> share]

\* the payloads the ledger is built from: an equal split, exact shares,
\* shares below the cent, shares one cent short, a participant who may not
\* be a member, a missing share and an empty list
LedgerParts ==
    { <<Part("A", None), Part("B", None)>>,
      <<Part("A", <<10>>), Part("B", <<10>>)>>,
      <<Part("A", <<12>>), Part("B", <<12>>)>>,
      <<Part("B", <<10>>)>>,
      <<Part("B", <<10>>), Part("C", <<10>>)>>,
      <<Part("A", <<10>>), Part("B", None)>>,
      <<>> }

LedgerRequests ==
    [payer_id : {"A", "C"}, amount : {20, 25}, split_between : LedgerParts]

\* a ledger that one accepted call has left
SeedLedgers ==
    { [expenses |-> <<>>, splits |-> <<>>],
      [expenses |-> <<[id |-> 1, payer_id |-> "A", amount |-> 20]>>,
       splits |-> <<[expense_id |-> 1, user_id |-> "A", share |-> 10],
                    [expense_id |-> 1, user_id |-> "B", share |-> 10]>>] }

NoResponse ==
    [op |-> "none", status |-> 0, expense_id |-> 0,
     balances |-> <<>>, transactions |-> <<>>]

Init ==
    /\ NoPollRows
    /\ members \in MemberLists
    /\ expenses = <<>>
    /\ splits = <<>>
    /\ request = NoRequest
    /\ response = NoResponse
    /\ balances = <<>>
    /\ plan = PlanInit(<<>>)
    /\ pc = "done"
    /\ calls = <<>>

\* POST /expenses/ : the store assigns the next id; the expense row is
\* inserted first, then one split row per part, in order
AddExpenseCall(req) ==
    \E out \in add_expense(req) :
          LET id == Len(expenses) + 1
          IN  IF out.status = 200
              THEN /\ expenses' = Append(expenses,
                            [id |-> id, payer_id |-> req.payer_id,
                             amount |-> req.amount])
                      /\ splits' = splits \o
                            [i \in DOMAIN out.parts |->
                                [expense_id |-> id,
                                 user_id |-> out.parts[i].user_id,
                                 share |-> out.parts[i].share[1]]]
                      /\ response' = [NoResponse EXCEPT !.op = "add_expense",
                                         !.status = 200, !.expense_id = id]
                 ELSE /\ UNCHANGED <<expenses, splits>>
                      /\ response' = [NoResponse EXCEPT !.op = "add_expense",
                                         !.status = out.status]

AddExpense ==
    /\ Len(expenses) < MaxExpenses
    /\ \E req \in LedgerRequests : AddExpenseCall(req)
    /\ UNCHANGED <<members, request, planner, calls, polldb>>

\* a balances dict that outlives the call and is added to by the next one
ComputeBalancesAccumulating ==
    LET fresh == compute_group_balances_decimal(members, expenses, splits)
        bals == IF response.op = "compute_balances"
                THEN [i \in DOMAIN fresh |->
                        [fresh[i] EXCEPT !.balance = @ + response.balances[i].balance]]
                ELSE fresh
    IN  /\ response' = [NoResponse EXCEPT !.op = "compute_balances",
                           !.status = 200, !.balances = bals,
                           !.transactions = settle_min_transactions(bals)]
        /\ UNCHANGED <<ledger, request, planner, calls, polldb>>

\* GET /group/{group_id}/balances ("settlements" is the transactions field)
ComputeBalances ==
    LET bals == compute_group_balances_decimal(members, expenses, splits)
        settlements == settle_min_transactions(bals)
    IN  /\ response' = [NoResponse EXCEPT !.op = "compute_balances",
                           !.status = 200, !.balances = bals,
                           !.transactions = settlements]
        /\ UNCHANGED <<ledger, request, planner, calls, polldb>>

InconsistentNever(total) == FALSE

\* "if not _zeroish(_q2(total))"
Inconsistent(total) == ~zeroish(q2(total))

\* a settle-up that clears the ledger it has planned the settlement of
SettleUpClearing ==
    LET bals == compute_group_balances_decimal(members, expenses, splits)
        total == SumSeq([i \in DOMAIN bals |-> bals[i].balance])
    IN  /\ response' =
              IF Inconsistent(total)
              THEN [NoResponse EXCEPT !.op = "settle_up", !.status = 500]
              ELSE [NoResponse EXCEPT !.op = "settle_up", !.status = 200,
                       !.transactions = settle_min_transactions(bals)]
        /\ expenses' = <<>>
        /\ splits' = <<>>
        /\ UNCHANGED <<members, request, planner, calls, polldb>>

\* GET /group/{group_id}/settle-up
SettleUp ==
    LET bals == compute_group_balances_decimal(members, expenses, splits)
        total == SumSeq([i \in DOMAIN bals |-> bals[i].balance])
    IN  /\ response' =
              IF Inconsistent(total)
              THEN [NoResponse EXCEPT !.op = "settle_up", !.status = 500]
              ELSE [NoResponse EXCEPT !.op = "settle_up", !.status = 200,
                       !.balances = [i \in DOMAIN bals |->
                           [user_id |-> bals[i].user_id,
                            balance |-> FormatAmount(q2(bals[i].balance))]],
                       !.transactions = settle_min_transactions(bals)]
        /\ UNCHANGED <<ledger, request, planner, calls, polldb>>

Next == AddExpense \/ ComputeBalances \/ SettleUp

Spec == Init /\ [][Next]_vars

\* ------------------------------------------ one call of add_expense alone
WriteInit ==
    /\ NoPollRows
    /\ members \in MemberLists
    /\ \E seed \in SeedLedgers : expenses = seed.expenses /\ splits = seed.splits
    /\ request \in Requests
    /\ response = NoResponse
    /\ balances = <<>>
    /\ plan = PlanInit(<<>>)
    /\ pc = "done"
    /\ calls = <<>>

\* the call of add_expense with the payload in request
HandleAddExpense ==
    /\ response = NoResponse
    /\ AddExpenseCall(request)
    /\ UNCHANGED <<members, request, planner, calls, polldb>>

WriteNext == HandleAddExpense

WriteSpec == WriteInit /\ [][WriteNext]_vars

\* ------------------------------ the equal split on more participants
PlanUserNames == <<"A", "B", "C", "D", "E", "F">>

\* a payload in which no participant carries a share
EqualSplitRequest(amount, n) ==
    [payer_id |-> "A", amount |-> amount,
     split_between |-> [i \in 1..n |-> Part(PlanUserNames[i], None)]]

AllocInit ==
    /\ NoPollRows
    /\ members = <<"A", "B">>
    /\ expenses = <<>>
    /\ splits = <<>>
    /\ \E cents \in 0..MaxSplitCents : \E n \in 1..MaxSplitWays :
          request = EqualSplitRequest(cents * CENTS, n)
    /\ response = NoResponse
    /\ balances = <<>>
    /\ plan = PlanInit(<<>>)
    /\ pc = "done"
    /\ calls = <<>>

AllocSpec == AllocInit /\ [][WriteNext]_vars

\* ------------------- concurrent calls, one store operation at a time
\* a write that replaces the rows of the table
StoreOverwrite(rows, row) == <<row>>

\* table.insert(row).execute(): the store appends the row
StoreInsert(rows, row) == Append(rows, row)

\* the payloads of the concurrent calls: an equal split, one explicit share
\* and a payload the handler rejects before any insert
ConcRequests ==
    { [payer_id |-> "A", amount |-> 20,
       split_between |-> <<Part("A", None), Part("B", None)>>],
      [payer_id |-> "B", amount |-> 10,
       split_between |-> <<Part("A", <<10>>)>>],
      [payer_id |-> "A", amount |-> 20,
       split_between |-> <<Part("A", <<10>>), Part("B", None)>>] }

QueryOps == {"compute_balances", "settle_up"}

\* a call that has not executed anything yet
NewCall(op, req) ==
    [op |-> op, req |-> req, pc |-> "start", status |-> 0,
     parts |-> <<>>, expense_id |-> 0, next |-> 1,
     seen |-> <<>>, balances |-> <<>>, transactions |-> <<>>]

Writers == 1..MaxWriters
Reader == MaxWriters + 1

ConcInit ==
    /\ NoPollRows
    /\ members = <<"A", "B">>
    /\ expenses = <<>>
    /\ splits = <<>>
    /\ request = NoRequest
    /\ response = NoResponse
    /\ balances = <<>>
    /\ plan = PlanInit(<<>>)
    /\ pc = "done"
    /\ \E reqs \in [Writers -> ConcRequests] : \E op \in QueryOps :
          calls = [c \in 1..Reader |->
                      IF c \in Writers THEN NewCall("add_expense", reqs[c])
                      ELSE NewCall(op, NoRequest)]

\* add_expense up to and including the insert of the expense row; what
\* comes before the insert touches only the locals of the call
BeginAddExpense(c) ==
    /\ calls[c].op = "add_expense"
    /\ calls[c].pc = "start"
    /\ \E out \in add_expense(calls[c].req) :
          IF out.status = 200
          THEN LET id == Len(expenses) + 1
               IN  /\ expenses' = StoreInsert(expenses,
                          [id |-> id, payer_id |-> calls[c].req.payer_id,
                           amount |-> calls[c].req.amount])
                   /\ calls' = [calls EXCEPT ![c].pc = "splits",
                                             ![c].parts = out.parts,
                                             ![c].expense_id = id]
          ELSE /\ calls' = [calls EXCEPT ![c].pc = "done",
                                         ![c].status = out.status]
               /\ UNCHANGED expenses
    /\ UNCHANGED <<members, splits, request, response, planner, polldb>>

\* one turn of "for p in parts: insert split"; after the last one the
\* handler returns the expense id
InsertSplit(c) ==
    /\ calls[c].op = "add_expense"
    /\ calls[c].pc = "splits"
    /\ LET p == calls[c].parts[calls[c].next]
           last == calls[c].next = Len(calls[c].parts)
       IN  /\ splits' = StoreInsert(splits,
                  [expense_id |-> calls[c].expense_id,
                   user_id |-> p.user_id, share |-> p.share[1]])
           /\ calls' = [calls EXCEPT ![c].next = @ + 1,
                                     ![c].pc = IF last THEN "done" ELSE "splits",
                                     ![c].status = IF last THEN 200 ELSE 0]
    /\ UNCHANGED <<members, expenses, request, response, planner, polldb>>

\* the store raises on the insert the call is about to do:
\* "except Exception" turns it into a 500 and nothing is undone
InsertFails(c) ==
    /\ calls[c].op = "add_expense"
    /\ \/ calls[c].pc = "splits"
       \/ /\ calls[c].pc = "start"
          /\ \E out \in add_expense(calls[c].req) : out.status = 200
    /\ calls' = [calls EXCEPT ![c].pc = "failed", ![c].status = 500]
    /\ UNCHANGED <<ledger, request, response, planner, polldb>>

\* what compute_balances and settle_up answer on the balances bals
QueryAnswer(op, bals) ==
    LET total == SumSeq([i \in DOMAIN bals |-> bals[i].balance])
    IN  IF op = "compute_balances"
        THEN [status |-> 200, balances |-> bals,
              transactions |-> settle_min_transactions(bals)]
        ELSE IF Inconsistent(total)
        THEN [status |-> 500, balances |-> <<>>, transactions |-> <<>>]
        ELSE [status |-> 200,
              balances |-> [i \in DOMAIN bals |->
                              [user_id |-> bals[i].user_id,
                               balance |-> FormatAmount(q2(bals[i].balance))]],
              transactions |-> settle_min_transactions(bals)]

Answer(c, bals) ==
    LET a == QueryAnswer(calls[c].op, bals)
    IN  [calls EXCEPT ![c].pc = "done", ![c].status = a.status,
                      ![c].balances = a.balances,
                      ![c].transactions = a.transactions]

\* the selects of group_members and of expenses; without expenses the
\* balances are returned without a select of expense_splits
ReadExpenses(c) ==
    /\ calls[c].op \in QueryOps
    /\ calls[c].pc = "start"
    /\ calls' = IF expenses = <<>>
                THEN Answer(c, compute_group_balances_decimal(members, <<>>, <<>>))
                ELSE [calls EXCEPT ![c].pc = "splits", ![c].seen = expenses]
    /\ UNCHANGED <<ledger, request, response, planner, polldb>>

\* the select of expense_splits of the expenses read before, and the rest
\* of the handler
ReadSplits(c) ==
    /\ calls[c].op \in QueryOps
    /\ calls[c].pc = "splits"
    /\ calls' = Answer(c, compute_group_balances_decimal(members, calls[c].seen, splits))
    /\ UNCHANGED <<ledger, request, response, planner, polldb>>

\* the store raises on the select the query is about to do
SelectFails(c) ==
    /\ calls[c].op \in QueryOps
    /\ calls[c].pc \in {"start", "splits"}
    /\ calls' = [calls EXCEPT ![c].pc = "failed", ![c].status = 500]
    /\ UNCHANGED <<ledger, request, response, planner, polldb>>

ConcNext ==
    \/ \E c \in DOMAIN calls : BeginAddExpense(c)
    \/ \E c \in DOMAIN calls : InsertSplit(c)
    \/ \E c \in DOMAIN calls : InsertFails(c)
    \/ \E c \in DOMAIN calls : ReadExpenses(c)
    \/ \E c \in DOMAIN calls : ReadSplits(c)
    \/ \E c \in DOMAIN calls : SelectFails(c)

ConcSpec == ConcInit /\ [][ConcNext]_vars

\* ------------------------------------- the Planner, one iteration at a time
BalanceValues == {c * CENTS : c \in (-MaxBal)..MaxBal}

\* the dicts the Aggregator can return: whole cents, one item per member
BalanceMapping(n, f) ==
    [i \in 1..n |-> [user_id |-> PlanUserNames[i], balance |-> f[i]]]

PlannerInit ==
    /\ NoPollRows
    /\ members = <<>>
    /\ expenses = <<>>
    /\ splits = <<>>
    /\ request = NoRequest
    /\ response = NoResponse
    /\ \E n \in 1..MaxPlanUsers : \E f \in [1..n -> BalanceValues] :
          balances = BalanceMapping(n, f)
    /\ plan = PlanInit(balances)
    /\ pc = "loop"
    /\ calls = <<>>

PlanLoop ==
    /\ pc = "loop"
    /\ LoopCond(plan)
    /\ plan' = PlanStep(plan)
    /\ UNCHANGED <<ledger, request, response, balances, pc, calls, polldb>>

PlanReturn ==
    /\ pc = "loop"
    /\ ~LoopCond(plan)
    /\ pc' = "done"
    /\ UNCHANGED <<ledger, request, response, balances, plan, calls, polldb>>

PlannerNext == PlanLoop \/ PlanReturn

PlannerSpec == PlannerInit /\ [][PlannerNext]_vars

\* the call runs on: a loop iteration or the return that can be executed is
\* executed
PlannerFairSpec == PlannerSpec /\ WF_vars(PlannerNext)

\* ================================================== the destination polls
PollUsers == {"A", "B"}
PlaceNames == {"Oslo"}

\* PollStart: mode is one of the two literals, days and final_destination
\* are optional
PollStarts ==
    [created_by : {"A"}, mode : {"discover", "fixed"},
     days : {None, <<3>>}, final_destination : {None, <<"Rome">>}]

\* PollSuggest.suggestions: no item or one item
SuggestionLists == {<<>>} \cup {<<[place_name |-> n]>> : n \in PlaceNames}

\* the polls preferences are submitted to and the suggestions votes are
\* cast on
PreferencePolls == {1}
VotedSuggestions == {1}

PollMemberLists == {<<>>, <<"A", "B", "C", "D">>}

Answers(op, status) == [NoResponse EXCEPT !.op = op, !.status = status]

\* .single() on a select that matches no row: the client library raises,
\* which ends in a 500, or returns no data, and the handler raises found
MissingRow(found) == {found, 500}

\* table.delete().eq(...).eq(...): the rows that do not match are left
\* (matched: the rows that match)
DeleteRows(rows, matched) == [r \in BagToSet(rows) \ matched |-> rows[r]]

InsertRow(rows, row) == rows (+) SetToBag({row})

\* len(set(row["user_id"] for row in rows)) of the poll's preference rows
get_distinct_pref_count(prefs, poll_id) ==
    Cardinality({r.user_id : r \in {q \in BagToSet(prefs) : q.poll_id = poll_id}})

\* _get_group_member_count
get_group_member_count == Len(members)

\* _compute_vote_ratio: the numbers of yes rows and of rows
compute_vote_ratio(votes, suggestion_id) ==
    LET rows == {r \in BagToSet(votes) : r.suggestion_id = suggestion_id}
        yesRows == {r \in rows : r.vote}
        Count(R) == BagCardinality([r \in R |-> votes[r]])
    IN  [yes |-> Count(yesRows), total |-> Count(rows)]

\* POST /start
StartPoll ==
    /\ Len(polls) < MaxPolls
    /\ \E payload \in PollStarts :
          LET invalid ==
                 IF payload.mode = "discover" THEN payload.days = None
                 ELSE payload.final_destination = None \/ payload.days = None
              status == IF payload.mode = "discover" THEN "collecting" ELSE "locked"
              final_destination ==
                 IF payload.mode = "discover" THEN None ELSE payload.final_destination
          IN  /\ request' = payload
              /\ IF invalid
                 THEN /\ response' = Answers("start_poll", 400)
                      /\ UNCHANGED polls
                 ELSE /\ polls' = Append(polls,
                             [id |-> Len(polls) + 1, created_by |-> payload.created_by,
                              mode |-> payload.mode, status |-> status,
                              final_destination |-> final_destination])
                      /\ response' = Answers("start_poll", 200)
    /\ UNCHANGED <<ledger, planner, calls,
                   poll_preferences, poll_suggestions, poll_votes>>

\* more than half of the members, where the code asks for half of them
QuorumExceeded(have, member_count) == 100 * have > QUORUM * member_count

\* "have / members >= 0.5"
QuorumReached(have, member_count) == 100 * have >= QUORUM * member_count

\* poll["status"] in ("planning", "collecting")
Collecting(status) == status \in {"planning", "collecting"}

\* POST /preferences: the old row is deleted and the new one inserted
\* before the poll is looked up
SubmitPreferences ==
    \E poll_id \in PreferencePolls : \E user_id \in PollUsers :
        LET saved == InsertRow(DeleteRows(poll_preferences,
                     {r \in BagToSet(poll_preferences) :
                         r.poll_id = poll_id
                         /\ r.user_id = user_id}),
                               [poll_id |-> poll_id, user_id |-> user_id])
            have == get_distinct_pref_count(saved, poll_id)
        IN  /\ poll_preferences' = saved
            /\ IF poll_id \notin DOMAIN polls
               THEN /\ \E status \in MissingRow(404) :
                          response' = Answers("submit_preferences", status)
                    /\ UNCHANGED polls
               ELSE /\ polls' =
                          IF /\ get_group_member_count > 0
                             /\ QuorumReached(have, get_group_member_count)
                             /\ Collecting(polls[poll_id].status)
                          THEN [polls EXCEPT ![poll_id].status = "ready_for_ai"]
                          ELSE polls
                    /\ response' = Answers("submit_preferences", 200)
            /\ request' = [poll_id |-> poll_id, user_id |-> user_id]
            /\ UNCHANGED <<ledger, planner, calls, poll_suggestions, poll_votes>>

\* POST /suggest: the rows are inserted with status open and the poll is
\* moved to voting, whatever its status was
AcceptSuggestions ==
    \E poll_id \in 1..MaxPolls : \E suggestions \in SuggestionLists :
        /\ Len(poll_suggestions) + Len(suggestions) <= MaxSuggestions
        /\ IF poll_id \notin DOMAIN polls
           THEN /\ \E status \in MissingRow(404) :
                      response' = Answers("accept_suggestions", status)
                /\ UNCHANGED <<polls, poll_suggestions>>
           ELSE /\ poll_suggestions' = poll_suggestions \o
                      [i \in DOMAIN suggestions |->
                          [id |-> Len(poll_suggestions) + i, poll_id |-> poll_id,
                           place_name |-> suggestions[i].place_name,
                           status |-> "open"]]
                /\ polls' = [polls EXCEPT ![poll_id].status = "voting"]
                /\ response' = Answers("accept_suggestions", 200)
        /\ request' = [poll_id |-> poll_id, suggestions |-> suggestions]
        /\ UNCHANGED <<ledger, planner, calls, poll_preferences, poll_votes>>

\* 'r["total"] >= 2 and r["ratio"] >= 0.70'
Approves(r) == r.total >= MIN_VOTES /\ 100 * r.yes >= APPROVAL * r.total

\* the rows of poll_suggestions after update({"status": status}).eq("id", id)
UpdateSuggestion(rows, id, status) ==
    [i \in DOMAIN rows |-> IF rows[i].id = id THEN [rows[i] EXCEPT !.status = status]
                           ELSE rows[i]]

\* the tables after POST /vote by user_id on suggestion_id
VoteCall(suggestion_id, user_id, vote) ==
    LET saved == InsertRow(DeleteRows(poll_votes,
                     {r \in BagToSet(poll_votes) :
                         r.suggestion_id = suggestion_id
                         /\ r.user_id = user_id}),
                           [suggestion_id |-> suggestion_id, user_id |-> user_id,
                            vote |-> vote])
        r == compute_vote_ratio(saved, suggestion_id)
    IN  /\ poll_votes' = saved
        /\ poll_suggestions' =
              IF Approves(r) THEN UpdateSuggestion(poll_suggestions, suggestion_id, "approved")
              ELSE poll_suggestions
        /\ response' = Answers("vote_suggestion", 200)
        /\ request' = [suggestion_id |-> suggestion_id, user_id |-> user_id,
                       vote |-> vote]

\* POST /vote, by the users of voters
VoteSuggestionBy(voters) ==
    /\ \E suggestion_id \in VotedSuggestions : \E user_id \in voters :
          \E vote \in BOOLEAN : VoteCall(suggestion_id, user_id, vote)
    /\ UNCHANGED <<ledger, planner, calls, polls, poll_preferences>>

VoteSuggestion == VoteSuggestionBy({"A"})

\* a check that lets every user through
AnyUser(poll, user_id) == TRUE

\* _require_creator
IsCreator(poll, user_id) == poll.created_by = user_id

\* POST /confirm
ConfirmChoice ==
    \E poll_id \in 1..MaxPolls : \E suggestion_id \in 1..MaxSuggestions :
        \E confirmed_by \in PollUsers :
            /\ IF poll_id \notin DOMAIN polls
               THEN /\ \E status \in MissingRow(404) :
                          response' = Answers("confirm_choice", status)
                    /\ UNCHANGED <<polls, poll_suggestions>>
               ELSE IF ~IsCreator(polls[poll_id], confirmed_by)
               THEN /\ response' = Answers("confirm_choice", 403)
                    /\ UNCHANGED <<polls, poll_suggestions>>
               ELSE IF suggestion_id \notin DOMAIN poll_suggestions
               THEN /\ \E status \in MissingRow(400) :
                          response' = Answers("confirm_choice", status)
                    /\ UNCHANGED <<polls, poll_suggestions>>
               ELSE IF poll_suggestions[suggestion_id].poll_id # poll_id
               THEN /\ response' = Answers("confirm_choice", 400)
                    /\ UNCHANGED <<polls, poll_suggestions>>
               ELSE /\ poll_suggestions' =
                          UpdateSuggestion(poll_suggestions, suggestion_id, "locked")
                    /\ polls' = [polls EXCEPT
                          ![poll_id].status = "locked",
                          ![poll_id].final_destination =
                              <<poll_suggestions[suggestion_id].place_name>>]
                    /\ response' = Answers("confirm_choice", 200)
            /\ request' = [poll_id |-> poll_id, suggestion_id |-> suggestion_id,
                           confirmed_by |-> confirmed_by]
            /\ UNCHANGED <<ledger, planner, calls, poll_preferences, poll_votes>>

PollInit ==
    /\ members \in PollMemberLists
    /\ expenses = <<>>
    /\ splits = <<>>
    /\ request = NoRequest
    /\ response = NoResponse
    /\ balances = <<>>
    /\ plan = PlanInit(<<>>)
    /\ pc = "done"
    /\ calls = <<>>
    /\ NoPollRows

PollNext ==
    \/ StartPoll
    \/ SubmitPreferences
    \/ AcceptSuggestions
    \/ VoteSuggestion
    \/ ConfirmChoice

PollSpec == PollInit /\ [][PollNext]_vars

\* ------------------------------------------------ the votes on a suggestion
Voters == {PlanUserNames[i] : i \in 1..MaxVoters}

\* a poll in voting with one open suggestion, as accept_suggestions leaves it
VoteInit ==
    /\ members = <<"A", "B", "C", "D">>
    /\ expenses = <<>>
    /\ splits = <<>>
    /\ request = NoRequest
    /\ response = NoResponse
    /\ balances = <<>>
    /\ plan = PlanInit(<<>>)
    /\ pc = "done"
    /\ calls = <<>>
    /\ polls = <<[id |-> 1, created_by |-> "A", mode |-> "discover",
                  status |-> "voting", final_destination |-> None]>>
    /\ poll_preferences = EmptyBag
    /\ poll_suggestions = <<[id |-> 1, poll_id |-> 1, place_name |-> "Oslo",
                             status |-> "open"]>>
    /\ poll_votes = EmptyBag

VoteNext == VoteSuggestionBy(Voters)

VoteSpec == VoteInit /\ [][VoteNext]_vars

\* ------------------------------------- concurrent preference and vote calls
\* submit_preferences and vote_suggestion are plain def handlers, which the
\* server runs on worker threads: MaxPollCalls requests are in flight and
\* every store operation of a handler (an execute() call) is one step.

\* the payloads of the calls: preferences for poll 1, votes on suggestion 1
PollCallPayloads ==
    {[op |-> "submit_preferences", poll_id |-> 1, user_id |-> u] : u \in PollUsers}
    \cup {[op |-> "vote_suggestion", suggestion_id |-> 1, user_id |-> u, vote |-> v] :
             u \in PollUsers, v \in BOOLEAN}

\* a call that has executed nothing yet; poll is the row _get_poll
\* returned, as a sequence of no row or one
NewPollCall(payload) == [req |-> payload, pc |-> "delete", poll |-> <<>>]

\* poll 1 is collecting, poll 2 is in voting on its suggestion 1, as two
\* start_poll calls and one accept_suggestions call leave them
PollConcInit ==
    /\ members = <<"A", "B", "C", "D">>
    /\ expenses = <<>>
    /\ splits = <<>>
    /\ request = NoRequest
    /\ response = NoResponse
    /\ balances = <<>>
    /\ plan = PlanInit(<<>>)
    /\ pc = "done"
    /\ calls \in [1..MaxPollCalls -> {NewPollCall(payload) : payload \in PollCallPayloads}]
    /\ polls = <<[id |-> 1, created_by |-> "A", mode |-> "discover",
                  status |-> "collecting", final_destination |-> None],
                 [id |-> 2, created_by |-> "A", mode |-> "discover",
                  status |-> "voting", final_destination |-> None]>>
    /\ poll_preferences = EmptyBag
    /\ poll_suggestions = <<[id |-> 1, poll_id |-> 2, place_name |-> "Oslo",
                             status |-> "open"]>>
    /\ poll_votes = EmptyBag

IsAt(c, op, at) == calls[c].req.op = op /\ calls[c].pc = at

Goto(c, at) == calls' = [calls EXCEPT ![c].pc = at]

\* the return of the handler
Returns(c) ==
    /\ response' = Answers(calls[c].req.op, 200)
    /\ request' = calls[c].req

\* submit_preferences: poll_preferences.delete().eq(poll_id).eq(user_id)
DeletePreference(c) ==
    /\ IsAt(c, "submit_preferences", "delete")
    /\ poll_preferences' =
          DeleteRows(poll_preferences,
                     {r \in BagToSet(poll_preferences) :
                         r.poll_id = calls[c].req.poll_id
                         /\ r.user_id = calls[c].req.user_id})
    /\ Goto(c, "insert")
    /\ UNCHANGED <<ledger, request, response, planner,
                   polls, poll_suggestions, poll_votes>>

\* submit_preferences: poll_preferences.insert(...)
InsertPreference(c) ==
    /\ IsAt(c, "submit_preferences", "insert")
    /\ poll_preferences' =
          InsertRow(poll_preferences,
                    [poll_id |-> calls[c].req.poll_id, user_id |-> calls[c].req.user_id])
    /\ Goto(c, "read")
    /\ UNCHANGED <<ledger, request, response, planner,
                   polls, poll_suggestions, poll_votes>>

\* submit_preferences: _get_poll
ReadPoll(c) ==
    /\ IsAt(c, "submit_preferences", "read")
    /\ calls' = [calls EXCEPT ![c].poll = <<polls[calls[c].req.poll_id]>>,
                              ![c].pc = "count"]
    /\ UNCHANGED <<ledger, request, response, planner, polldb>>

\* submit_preferences: the two counts and the test on them and on the
\* status _get_poll returned
CountPreferences(c) ==
    /\ IsAt(c, "submit_preferences", "count")
    /\ LET have == get_distinct_pref_count(poll_preferences, calls[c].req.poll_id)
       IN  IF /\ get_group_member_count > 0
              /\ QuorumReached(have, get_group_member_count)
              /\ Collecting(calls[c].poll[1].status)
           THEN /\ Goto(c, "update")
                /\ UNCHANGED <<request, response>>
           ELSE /\ Goto(c, "done")
                /\ Returns(c)
    /\ UNCHANGED <<ledger, planner, polldb>>

\* submit_preferences: polls.update({"status": "ready_for_ai"})
UpdatePoll(c) ==
    /\ IsAt(c, "submit_preferences", "update")
    /\ polls' = [polls EXCEPT ![calls[c].req.poll_id].status = "ready_for_ai"]
    /\ Goto(c, "done")
    /\ Returns(c)
    /\ UNCHANGED <<ledger, planner, poll_preferences, poll_suggestions, poll_votes>>

\* vote_suggestion: poll_votes.delete().eq(suggestion_id).eq(user_id)
DeleteVote(c) ==
    /\ IsAt(c, "vote_suggestion", "delete")
    /\ poll_votes' =
          DeleteRows(poll_votes,
                     {r \in BagToSet(poll_votes) :
                         r.suggestion_id = calls[c].req.suggestion_id
                         /\ r.user_id = calls[c].req.user_id})
    /\ Goto(c, "insert")
    /\ UNCHANGED <<ledger, request, response, planner,
                   polls, poll_preferences, poll_suggestions>>

\* vote_suggestion: poll_votes.insert(...)
InsertVote(c) ==
    /\ IsAt(c, "vote_suggestion", "insert")
    /\ poll_votes' =
          InsertRow(poll_votes,
                    [suggestion_id |-> calls[c].req.suggestion_id,
                     user_id |-> calls[c].req.user_id, vote |-> calls[c].req.vote])
    /\ Goto(c, "count")
    /\ UNCHANGED <<ledger, request, response, planner,
                   polls, poll_preferences, poll_suggestions>>

\* vote_suggestion: _compute_vote_ratio and the test on it
CountVotes(c) ==
    /\ IsAt(c, "vote_suggestion", "count")
    /\ IF Approves(compute_vote_ratio(poll_votes, calls[c].req.suggestion_id))
       THEN /\ Goto(c, "update")
            /\ UNCHANGED <<request, response>>
       ELSE /\ Goto(c, "done")
            /\ Returns(c)
    /\ UNCHANGED <<ledger, planner, polldb>>

\* vote_suggestion: poll_suggestions.update({"status": "approved"})
ApproveSuggestion(c) ==
    /\ IsAt(c, "vote_suggestion", "update")
    /\ poll_suggestions' =
          UpdateSuggestion(poll_suggestions, calls[c].req.suggestion_id, "approved")
    /\ Goto(c, "done")
    /\ Returns(c)
    /\ UNCHANGED <<ledger, planner, polls, poll_preferences, poll_votes>>

PollConcNext ==
    \/ \E c \in DOMAIN calls : DeletePreference(c)
    \/ \E c \in DOMAIN calls : InsertPreference(c)
    \/ \E c \in DOMAIN calls : ReadPoll(c)
    \/ \E c \in DOMAIN calls : CountPreferences(c)
    \/ \E c \in DOMAIN calls : UpdatePoll(c)
    \/ \E c \in DOMAIN calls : DeleteVote(c)
    \/ \E c \in DOMAIN calls : InsertVote(c)
    \/ \E c \in DOMAIN calls : CountVotes(c)
    \/ \E c \in DOMAIN calls : ApproveSuggestion(c)

PollConcSpec == PollConcInit /\ [][PollConcNext]_vars

\* ================================================================ claims
TotalOf(bals) == SumSeq([i \in DOMAIN bals |-> bals[i].balance])

CurrentBalances == compute_group_balances_decimal(members, expenses, splits)

\* the split rows of an expense, in insertion order
SplitsOf(expense_id) == SelectSeq(splits, LAMBDA s : s.expense_id = expense_id)

SharesOf(expense_id) ==
    LET rows == SplitsOf(expense_id) IN [i \in DOMAIN rows |-> rows[i].share]

\* what a user paid, and what a user owes, over the whole ledger
PaidRef(user_id) ==
    LET own == SelectSeq(expenses, LAMBDA e : e.payer_id = user_id)
    IN  SumSeq([i \in DOMAIN own |-> own[i].amount])

OwedRef(user_id) ==
    LET own == SelectSeq(splits, LAMBDA s : s.user_id = user_id)
    IN  SumSeq([i \in DOMAIN own |-> own[i].share])

\* the total a user pays, and receives, in a list of transactions
PaysIn(user_id, transactions) ==
    LET own == SelectSeq(transactions, LAMBDA t : t.from = user_id)
    IN  SumSeq([i \in DOMAIN own |-> own[i].amount])

ReceivesIn(user_id, transactions) ==
    LET own == SelectSeq(transactions, LAMBDA t : t.to = user_id)
    IN  SumSeq([i \in DOMAIN own |-> own[i].amount])

CreditorCount(bals) == Cardinality({i \in DOMAIN bals : bals[i].balance > 0})
DebtorCount(bals) == Cardinality({i \in DOMAIN bals : bals[i].balance < 0})

\* C1: in a ledger whose expenses all have shares summing to the amount
\* within 0.01, the balances the Aggregator returns sum to 0.00.
C1_Conservation ==
    (\A i \in DOMAIN expenses :
        Abs(SumSeq(SharesOf(expenses[i].id)) - expenses[i].amount) <= TOLERANCE)
    => TotalOf(CurrentBalances) = 0

\* C2: when the Planner has returned on balances that sum to zero, every
\* creditor has received exactly their credit and every debtor has paid
\* exactly their debt.
C2_SettlementCorrect ==
    (pc = "done" /\ TotalOf(balances) = 0)
    => \A i \in DOMAIN balances :
          balances[i].balance - ReceivesIn(balances[i].user_id, plan.settlements)
              + PaysIn(balances[i].user_id, plan.settlements) = 0

C2_Witness ==
    /\ pc = "done"
    /\ TotalOf(balances) = 0
    /\ Len(plan.settlements) >= 3

\* the call of add_expense on the payload in request has answered
Answered == response.op = "add_expense"

NoShareGiven(parts) == \A i \in DOMAIN parts : parts[i].share = None
SomeShareGiven(parts) == \E i \in DOMAIN parts : parts[i].share # None
SomeShareMissing(parts) == \E i \in DOMAIN parts : parts[i].share = None

\* C3: an accepted expense without any explicit share is persisted with
\* shares that sum exactly to its amount, all but the last being equal and
\* the last being the amount minus the others.
C3_EqualSplitExact ==
    (Answered /\ response.status = 200 /\ NoShareGiven(request.split_between))
    => LET shares == SharesOf(response.expense_id)
           n == Len(shares)
           others == SubSeq(shares, 1, n - 1)
       IN  /\ n = Len(request.split_between)
           /\ SumSeq(shares) = request.amount
           /\ \A i \in 1..(n - 1) : shares[i] = shares[1]
           /\ shares[n] = request.amount - SumSeq(others)

\* C4: settle_up answers with the inconsistent-balances error and without
\* transactions whenever the balances of the ledger do not sum to zero
\* within the half-cent tolerance, and with a plan only when they sum to
\* zero.
C4_SettleUpFailFast ==
    response.op = "settle_up"
    => /\ Abs(TotalOf(CurrentBalances)) >= HALF_CENT
          => (response.status = 500 /\ response.transactions = <<>>)
       /\ response.status = 200 => TotalOf(CurrentBalances) = 0

C4_Witness ==
    /\ response.op = "settle_up"
    /\ response.status = 500
    /\ CreditorCount(CurrentBalances) > 0
    /\ DebtorCount(CurrentBalances) > 0

\* C5: no answer of compute_balances or settle_up carries transactions
\* planned from balances that do not sum to zero.
C5_PlannerOnlyOnZeroSum ==
    (response.op \in {"compute_balances", "settle_up"}
        /\ response.transactions # <<>>)
    => TotalOf(response.balances) = 0

\* C6: when the Planner has returned on balances with a creditor and a
\* debtor, it has emitted at most creditors + debtors - 1 transactions.
C6_TransactionBound ==
    (pc = "done" /\ CreditorCount(balances) > 0 /\ DebtorCount(balances) > 0)
    => Len(plan.settlements)
          <= CreditorCount(balances) + DebtorCount(balances) - 1

C6_Witness ==
    /\ pc = "done"
    /\ CreditorCount(balances) >= 2
    /\ DebtorCount(balances) >= 2
    /\ Len(plan.settlements) = CreditorCount(balances) + DebtorCount(balances) - 1

\* C7: every transaction the Planner has emitted, at any point of the loop,
\* has an amount of at least 0.01.
C7_PositiveAmounts ==
    \A i \in DOMAIN plan.settlements : plan.settlements[i].amount >= CENTS

C7_Witness ==
    /\ pc = "done"
    /\ \E i \in DOMAIN plan.settlements : plan.settlements[i].amount = CENTS
    /\ TotalOf(balances) # 0

\* the sum of the explicit shares, every one being given
ExplicitDeviation(req) ==
    Abs(SumSeq([i \in DOMAIN req.split_between |-> req.split_between[i].share[1]])
        - req.amount)

\* C8: a call with amount <= 0, with no participant, or with explicit shares
\* that deviate from the amount by more than 0.01 is rejected and leaves the
\* expense and split rows as they were.
C8_RejectsInvalid ==
    [][(response.op = "none" /\ response'.op = "add_expense"
          /\ \/ request.amount <= 0
             \/ request.split_between = <<>>
             \/ /\ ~SomeShareMissing(request.split_between)
                /\ ExplicitDeviation(request) > TOLERANCE)
       => (response'.status # 200 /\ UNCHANGED <<expenses, splits>>)]_vars

\* C9: a call in which some participant has a share is never given an equal
\* split: if a share is missing it is rejected and writes no row, and if it
\* is accepted the rows carry the shares of the payload.
C9_NoMixedShares ==
    [][(response.op = "none" /\ response'.op = "add_expense"
          /\ SomeShareGiven(request.split_between))
       => /\ SomeShareMissing(request.split_between)
             => (response'.status # 200 /\ UNCHANGED <<expenses, splits>>)
          /\ response'.status = 200
             => /\ expenses' = Append(expenses, expenses'[Len(expenses')])
                /\ splits' = splits \o
                      [i \in DOMAIN request.split_between |->
                          [expense_id |-> response'.expense_id,
                           user_id |-> request.split_between[i].user_id,
                           share |-> request.split_between[i].share[1]]]]_vars

C9_Witness ==
    /\ Answered
    /\ request.amount > 0
    /\ SomeShareGiven(request.split_between)
    /\ SomeShareMissing(request.split_between)
    /\ response.status = 500
    /\ expenses # <<>>

\* C10 as claimed: one entry per member, each equal to what the member paid
\* minus what the member owes.
C10_ExactBalance ==
    /\ Len(CurrentBalances) = Len(members)
    /\ \A i \in DOMAIN members :
          /\ CurrentBalances[i].user_id = members[i]
          /\ CurrentBalances[i].balance = PaidRef(members[i]) - OwedRef(members[i])

\* C10 as amended: one entry per member, each equal to what the member paid
\* minus what the member owes, rounded half-up to two decimals; 0.00 for a
\* member without activity and for every member of a group without expense.
C10_RoundedBalance ==
    /\ Len(CurrentBalances) = Len(members)
    /\ \A i \in DOMAIN members :
          /\ CurrentBalances[i].user_id = members[i]
          /\ CurrentBalances[i].balance = q2(PaidRef(members[i]) - OwedRef(members[i]))
          /\ (PaidRef(members[i]) = 0 /\ OwedRef(members[i]) = 0)
                => CurrentBalances[i].balance = 0

C10_Witness ==
    /\ Len(expenses) = 2
    /\ \E i \in DOMAIN members :
          /\ PaidRef(members[i]) > 0
          /\ OwedRef(members[i]) > 0
          /\ (PaidRef(members[i]) - OwedRef(members[i])) % CENTS # 0
    /\ \E i \in DOMAIN expenses : ~HasKey(CurrentBalances, expenses[i].payer_id)

\* a sequence without its element at index j
Without(s, j) == SubSeq(s, 1, j - 1) \o SubSeq(s, j + 1, Len(s))

IsMember(user_id) == \E i \in DOMAIN members : members[i] = user_id

\* C11: a split of a user who is not a member of the group adds no entry to
\* the balances and leaves them as they are without that split.
C11_NonMemberSplitIgnored ==
    \A j \in DOMAIN splits :
        ~IsMember(splits[j].user_id)
        => /\ ~HasKey(CurrentBalances, splits[j].user_id)
           /\ CurrentBalances =
                 compute_group_balances_decimal(members, expenses, Without(splits, j))

C11_Witness ==
    /\ \E j \in DOMAIN splits : ~IsMember(splits[j].user_id)
    /\ response.op = "compute_balances"
    /\ response.transactions # <<>>

\* amount / n rounded down to whole cents
Floor2(amount, n) == (amount \div (n * CENTS)) * CENTS

\* C12: an accepted expense without any explicit share gives every
\* participant but the last amount / n rounded down to whole cents.
C12_OthersGetFloor ==
    (Answered /\ response.status = 200 /\ NoShareGiven(request.split_between))
    => LET shares == SharesOf(response.expense_id)
           n == Len(request.split_between)
       IN  /\ Len(shares) = n
           /\ \A i \in 1..(n - 1) : shares[i] = Floor2(request.amount, n)

\* C13: every split row add_expense persisted has a share of zero or more.
C13_SharesNonNegative ==
    \A j \in DOMAIN splits : splits[j].share >= 0

\* C14: in every state of the store, also between the inserts of a running
\* add_expense and after one that failed part-way, every persisted expense
\* has at least one split and its splits sum to its amount within 0.01.
C14_AtomicInsert ==
    \A k \in DOMAIN expenses :
        /\ SplitsOf(expenses[k].id) # <<>>
        /\ Abs(SumSeq(SharesOf(expenses[k].id)) - expenses[k].amount) <= TOLERANCE

\* the calls of add_expense that have inserted their expense row
Started == {w \in Writers : calls[w].expense_id # 0}

\* the split rows a call of add_expense inserts when it runs to its end
RowsOf(w) ==
    [i \in DOMAIN calls[w].parts |->
        [expense_id |-> calls[w].expense_id,
         user_id |-> calls[w].parts[i].user_id,
         share |-> calls[w].parts[i].share[1]]]

\* the ledger in which the calls of S have run to their end and the other
\* calls have not begun
WholeExpenses(S) ==
    SelectSeq(expenses, LAMBDA e : \E w \in S : calls[w].expense_id = e.id)

RECURSIVE WholeSplits(_, _)
WholeSplits(S, w) ==
    IF w = 0 THEN <<>>
    ELSE WholeSplits(S, w - 1) \o (IF w \in S THEN RowsOf(w) ELSE <<>>)

AnswerOf(c) ==
    [status |-> calls[c].status, balances |-> calls[c].balances,
     transactions |-> calls[c].transactions]

\* C15: a balances query that runs concurrently with calls of add_expense
\* answers with the balances of a ledger in which each of these calls has
\* either run to its end or not begun, never with those of a ledger that
\* holds an expense without all of its splits.
C15_QuerySeesWholeExpenses ==
    [][\A c \in DOMAIN calls :
          (calls[c].op \in QueryOps /\ calls[c].pc # "done" /\ calls'[c].pc = "done")
          => \E S \in SUBSET Started :
                AnswerOf(c)' =
                   QueryAnswer(calls[c].op,
                       compute_group_balances_decimal(members, WholeExpenses(S),
                                                      WholeSplits(S, MaxWriters)))]_vars

\* the calls of add_expense that returned the id of their expense
Accepted == {w \in Writers : calls[w].status = 200}

\* the ledger after the calls of order ran one after the other
SeqExpenses(order) ==
    [k \in DOMAIN order |->
        [id |-> k, payer_id |-> calls[order[k]].req.payer_id,
         amount |-> calls[order[k]].req.amount]]

RECURSIVE SeqSplits(_, _)
SeqSplits(order, k) ==
    IF k = 0 THEN <<>>
    ELSE SeqSplits(order, k - 1)
         \o [i \in DOMAIN calls[order[k]].parts |->
                [expense_id |-> k,
                 user_id |-> calls[order[k]].parts[i].user_id,
                 share |-> calls[order[k]].parts[i].share[1]]]

Orders(S) ==
    {o \in [1..Cardinality(S) -> S] : \A i, j \in DOMAIN o : o[i] = o[j] => i = j}

RECURSIVE TotalParts(_)
TotalParts(w) ==
    IF w = 0 THEN 0
    ELSE TotalParts(w - 1) + (IF w \in Accepted THEN Len(calls[w].parts) ELSE 0)

\* C16: once the racing calls of add_expense have all returned, the ledger
\* holds the expense and every split of each accepted call and nothing
\* else, and its balances are those of the calls run one after the other,
\* in any order.
C16_NoLostUpdate ==
    (\A w \in Writers : calls[w].pc = "done")
    => /\ Len(expenses) = Cardinality(Accepted)
       /\ Len(splits) = TotalParts(MaxWriters)
       /\ \A w \in Accepted :
             /\ \E k \in DOMAIN expenses :
                   expenses[k] = [id |-> calls[w].expense_id,
                                  payer_id |-> calls[w].req.payer_id,
                                  amount |-> calls[w].req.amount]
             /\ SplitsOf(calls[w].expense_id) = RowsOf(w)
             /\ \A v \in Accepted : calls[v].expense_id = calls[w].expense_id => v = w
       /\ \A order \in Orders(Accepted) :
             CurrentBalances =
                compute_group_balances_decimal(members, SeqExpenses(order),
                                               SeqSplits(order, Len(order)))

\* two accepted calls whose split rows are interleaved in the store
C16_Witness ==
    /\ \A w \in Writers : calls[w].pc = "done"
    /\ Cardinality(Accepted) >= 2
    /\ \E i, j, k \in DOMAIN splits :
          /\ i < j /\ j < k
          /\ splits[i].expense_id = splits[k].expense_id
          /\ splits[i].expense_id # splits[j].expense_id

\* C17: a call of compute_balances or of settle_up, failing or not, leaves
\* every member, expense and split row as it was.
C17_QueriesReadOnly ==
    [][response'.op \in QueryOps => UNCHANGED <<members, expenses, splits>>]_vars

\* settle_up has failed on a ledger that holds rows
C17_Witness ==
    /\ response.op = "settle_up"
    /\ response.status = 500
    /\ expenses # <<>>
    /\ splits # <<>>

Reordered(rows, f) == [i \in DOMAIN rows |-> rows[f[i]]]

\* C19: in whatever order the store returns the expense rows and the split
\* rows, the Aggregator gives every member the same balance.
C19_OrderIndependent ==
    \A f \in Permutations(DOMAIN expenses) :
        \A g \in Permutations(DOMAIN splits) :
            compute_group_balances_decimal(members, Reordered(expenses, f),
                                           Reordered(splits, g))
            = CurrentBalances

\* two expenses of one payer with different amounts, and three splits or more
C19_Witness ==
    /\ \E i, j \in DOMAIN expenses :
          /\ expenses[i].payer_id = expenses[j].payer_id
          /\ expenses[i].amount # expenses[j].amount
          /\ IsMember(expenses[i].payer_id)
    /\ Len(splits) >= 3

\* the balance the Planner was called with, and what is left of it after
\* the transactions planned so far
InitialOf(user_id) ==
    LET own == SelectSeq(balances, LAMBDA b : b.user_id = user_id)
    IN  own[1].balance

PlanUsers == {balances[i].user_id : i \in DOMAIN balances}

RemainingCredit(user_id) ==
    IF InitialOf(user_id) > 0
    THEN InitialOf(user_id) - ReceivesIn(user_id, plan.settlements)
    ELSE 0

RemainingDebt(user_id) ==
    IF InitialOf(user_id) < 0
    THEN (-InitialOf(user_id)) - PaysIn(user_id, plan.settlements)
    ELSE 0

Smaller(a, b) == IF a <= b THEN a ELSE b

\* the transaction a step of the loop has appended
Appended == plan'.settlements[Len(plan'.settlements)]

\* C20 as stated: every transfer is between the creditor with the largest
\* remaining credit and the debtor with the largest remaining debt, and its
\* amount is the smaller of these two remaining amounts.
C20_LargestRemaining ==
    [][Len(plan'.settlements) = Len(plan.settlements) + 1
       => /\ \A u \in PlanUsers : RemainingCredit(u) <= RemainingCredit(Appended.to)
          /\ \A u \in PlanUsers : RemainingDebt(u) <= RemainingDebt(Appended.from)
          /\ Appended.amount = Smaller(RemainingCredit(Appended.to),
                                       RemainingDebt(Appended.from))]_vars

\* C20: every transfer is between the creditor with the largest initial
\* credit and the debtor with the largest initial debt among the members
\* not yet settled, and its amount is the smaller of what remains of the two.
C20_LargestInitial ==
    [][Len(plan'.settlements) = Len(plan.settlements) + 1
       => /\ RemainingCredit(Appended.to) > 0
          /\ RemainingDebt(Appended.from) > 0
          /\ \A u \in PlanUsers :
                RemainingCredit(u) > 0 => InitialOf(u) <= InitialOf(Appended.to)
          /\ \A u \in PlanUsers :
                RemainingDebt(u) > 0 => InitialOf(u) >= InitialOf(Appended.from)
          /\ Appended.amount = Smaller(RemainingCredit(Appended.to),
                                       RemainingDebt(Appended.from))]_vars

\* the loop goes on with a partly paid creditor although a creditor further
\* down the list has more left
C20_Witness ==
    /\ pc = "loop"
    /\ LoopCond(plan)
    /\ plan.settlements # <<>>
    /\ \E j \in DOMAIN plan.creditors :
          /\ j > plan.ci
          /\ plan.creditors[j].amount > plan.creditors[plan.ci].amount

\* C21: in the list of transactions, the payees come in descending order of
\* their initial credit and the payers in descending order of their initial
\* debt, a member once left is not returned to, and the first transaction
\* is from the largest debtor to the largest creditor.
C21_OutputOrder ==
    LET s == plan.settlements
    IN  /\ \A i, j \in DOMAIN s :
              i < j => /\ InitialOf(s[i].to) >= InitialOf(s[j].to)
                       /\ InitialOf(s[i].from) <= InitialOf(s[j].from)
        /\ \A i, j, k \in DOMAIN s :
              (i < j /\ j < k)
              => /\ s[i].to = s[k].to => s[j].to = s[i].to
                 /\ s[i].from = s[k].from => s[j].from = s[i].from
        /\ s # <<>>
              => \A u \in PlanUsers : /\ InitialOf(u) <= InitialOf(s[1].to)
                                      /\ InitialOf(u) >= InitialOf(s[1].from)

\* a plan that has changed both its payee and its payer
C21_Witness ==
    /\ pc = "done"
    /\ \E i, j \in DOMAIN plan.settlements :
          /\ plan.settlements[i].to # plan.settlements[j].to
          /\ InitialOf(plan.settlements[i].to) # InitialOf(plan.settlements[j].to)
    /\ \E i, j \in DOMAIN plan.settlements :
          /\ plan.settlements[i].from # plan.settlements[j].from
          /\ InitialOf(plan.settlements[i].from) # InitialOf(plan.settlements[j].from)

\* C22: every iteration of the loop advances ci or di, neither index passes
\* the end of its list by more than one, the Planner returns only when a
\* list is exhausted, and it returns on every balance mapping.
C22_Terminates ==
    /\ [][/\ plan' # plan
             => /\ plan'.ci + plan'.di > plan.ci + plan.di
                /\ plan'.ci >= plan.ci
                /\ plan'.di >= plan.di
                /\ plan'.ci <= Len(plan.creditors) + 1
                /\ plan'.di <= Len(plan.debtors) + 1
          /\ pc' = "done"
             => (plan'.ci > Len(plan'.creditors) \/ plan'.di > Len(plan'.debtors))]_vars
    /\ <>(pc = "done")

\* the Planner has returned on balances that do not sum to zero, after three
\* iterations or more
C22_Witness ==
    /\ pc = "done"
    /\ TotalOf(balances) # 0
    /\ plan.ci + plan.di >= 5
    /\ plan.ci <= Len(plan.creditors)

\* the exact total of a member: what the member paid minus what the member
\* owes over the whole ledger
ExactTotal(user_id) == PaidRef(user_id) - OwedRef(user_id)

\* a number of mills to the nearest cent, the half cent away from zero
NearestCentHalfAway(x) ==
    LET cents == Abs(x) \div CENTS
        rest == Abs(x) % CENTS
        magnitude == IF 2 * rest >= CENTS THEN (cents + 1) * CENTS ELSE cents * CENTS
    IN  IF x >= 0 THEN magnitude ELSE -magnitude

C27_DebtorPaysCreditor ==
    LET s == plan.settlements
    IN  /\ \A i \in DOMAIN s :
              /\ InitialOf(s[i].from) < 0
              /\ InitialOf(s[i].to) > 0
              /\ s[i].from # s[i].to
        /\ \A i, j \in DOMAIN s : s[i].from # s[j].to
        /\ \A u \in PlanUsers :
              InitialOf(u) = 0
              => \A i \in DOMAIN s : s[i].from # u /\ s[i].to # u

\* a plan of two transactions or more on balances with a member at zero
C27_Witness ==
    /\ pc = "done"
    /\ Len(plan.settlements) >= 2
    /\ \E u \in PlanUsers : InitialOf(u) = 0

\* C28: no debtor pays more than their debt and no creditor receives more
\* than their credit, whatever the sum of the balances, and when the
\* Planner has returned every creditor has received their credit or every
\* debtor has paid their debt.
C28_NeverOverSettles ==
    /\ \A u \in PlanUsers :
          /\ InitialOf(u) >= 0 => PaysIn(u, plan.settlements) = 0
          /\ InitialOf(u) <= 0 => ReceivesIn(u, plan.settlements) = 0
          /\ InitialOf(u) < 0 => PaysIn(u, plan.settlements) <= -InitialOf(u)
          /\ InitialOf(u) > 0 => ReceivesIn(u, plan.settlements) <= InitialOf(u)
    /\ pc = "done"
          => \/ \A u \in PlanUsers : RemainingCredit(u) = 0
             \/ \A u \in PlanUsers : RemainingDebt(u) = 0

\* the Planner has returned with a debtor who has not paid all of their debt
C28_Witness ==
    /\ pc = "done"
    /\ plan.settlements # <<>>
    /\ TotalOf(balances) < 0
    /\ \E u \in PlanUsers : RemainingDebt(u) > 0 /\ PaysIn(u, plan.settlements) > 0

\* the users with a preference row for poll_id in prefs
PreferenceUsers(prefs, poll_id) ==
    {u \in PollUsers : \E r \in BagToSet(prefs) : r.poll_id = poll_id /\ r.user_id = u}

\* C24: a submit_preferences call moves the poll it names to ready_for_ai
\* exactly when the group has a member, the users with a preference for the
\* poll after the save are at least half of the members, and the poll is
\* collecting or planning; in every other case, and for every other poll,
\* the poll is left as it was.
C24_ReadyAtQuorum ==
    [][response'.op = "submit_preferences" =>
          LET p == request'.poll_id
              have == Cardinality(PreferenceUsers(poll_preferences', p))
              quorum == Len(members) > 0 /\ 2 * have >= Len(members)
          IN  /\ DOMAIN polls' = DOMAIN polls
              /\ \A i \in DOMAIN polls :
                    polls'[i] =
                       IF i = p /\ quorum /\ polls[i].status \in {"collecting", "planning"}
                       THEN [polls[i] EXCEPT !.status = "ready_for_ai"]
                       ELSE polls[i]]_vars

\* the second of four members has submitted and the poll is ready
C24_Witness ==
    /\ response.op = "submit_preferences"
    /\ response.status = 200
    /\ Len(members) = 4
    /\ Cardinality(PreferenceUsers(poll_preferences, request.poll_id)) = 2
    /\ polls[request.poll_id].status = "ready_for_ai"

\* C26: a confirm_choice call on a poll by a user who is not its creator
\* is answered 403, and one by the creator with a suggestion of another
\* poll 400, both with the polls and the suggestions unchanged; a call
\* changes something only for the creator and a suggestion of the poll, and
\* the call answered 200 has locked the poll and the suggestion and set
\* final_destination to the suggestion's place_name.
C26_ConfirmChoice ==
    [][response'.op = "confirm_choice" /\ request'.poll_id \in DOMAIN polls =>
          LET p == request'.poll_id
              s == request'.suggestion_id
              creator == request'.confirmed_by = polls[p].created_by
              known == s \in DOMAIN poll_suggestions
              unchanged == polls' = polls /\ poll_suggestions' = poll_suggestions
          IN  /\ ~creator => response'.status = 403 /\ unchanged
              /\ creator /\ known /\ poll_suggestions[s].poll_id # p
                    => response'.status = 400 /\ unchanged
              /\ ~unchanged => creator /\ known /\ poll_suggestions[s].poll_id = p
              /\ response'.status = 200
                    => /\ polls'[p].status = "locked"
                       /\ polls'[p].final_destination = <<poll_suggestions[s].place_name>>
                       /\ poll_suggestions'[s].status = "locked"
                       /\ \A i \in DOMAIN polls : i # p => polls'[i] = polls[i]]_vars

\* the creator has confirmed a suggestion of a poll that was in voting
C26_Witness ==
    /\ response.op = "confirm_choice"
    /\ response.status = 200
    /\ request.poll_id \in DOMAIN polls
    /\ polls[request.poll_id].mode = "discover"
    /\ polls[request.poll_id].status = "locked"
    /\ polls[request.poll_id].final_destination = <<"Oslo">>
    /\ poll_suggestions[request.suggestion_id].status = "locked"

\* C29: a submit_preferences, accept_suggestions or vote_suggestion call
\* leaves the status and the final_destination of every locked poll as they
\* were.
C29_LockedIsTerminal ==
    [][response'.op \in {"submit_preferences", "accept_suggestions", "vote_suggestion"}
          => \A i \in DOMAIN polls :
                polls[i].status = "locked"
                   => /\ polls'[i].status = "locked"
                      /\ polls'[i].final_destination = polls[i].final_destination]_vars

\* the numbers of vote rows and of yes rows on a suggestion
VoteRows(suggestion_id, yesOnly) ==
    LET rows == {r \in BagToSet(poll_votes) :
                    r.suggestion_id = suggestion_id /\ (yesOnly => r.vote)}
    IN  IF rows = {} THEN 0 ELSE BagCardinality([r \in rows |-> poll_votes[r]])

\* C30: an approved suggestion has two votes or more, 70% of them or more
\* yes.
C30_ApprovalReflectsVotes ==
    \A i \in DOMAIN poll_suggestions :
        poll_suggestions[i].status = "approved"
            => /\ VoteRows(poll_suggestions[i].id, FALSE) >= 2
               /\ 10 * VoteRows(poll_suggestions[i].id, TRUE)
                     >= 7 * VoteRows(poll_suggestions[i].id, FALSE)

\* the number of rows of a table among the distinct rows keyed
RowCount(rows, keyed) ==
    IF keyed = {} THEN 0 ELSE BagCardinality([r \in keyed |-> rows[r]])

AllReturned == \A c \in DOMAIN calls : calls[c].pc = "done"

\* C25: when the concurrent submit_preferences and vote_suggestion calls
\* have all returned, no (poll, user) has two preference rows and no
\* (suggestion, user) two vote rows, and the votes counted on a suggestion
\* are no more than the users who voted on it.
C25_OneRowPerUser ==
    AllReturned =>
        /\ \A u \in PollUsers :
              /\ RowCount(poll_preferences,
                          {r \in BagToSet(poll_preferences) :
                              r.poll_id = 1 /\ r.user_id = u}) <= 1
              /\ RowCount(poll_votes,
                          {r \in BagToSet(poll_votes) :
                              r.suggestion_id = 1 /\ r.user_id = u}) <= 1
        /\ RowCount(poll_votes, {r \in BagToSet(poll_votes) : r.suggestion_id = 1})
              <= Cardinality({r.user_id : r \in {q \in BagToSet(poll_votes) :
                                                     q.suggestion_id = 1}})

====
